---- MODULE Spec2Model ----
(***************************************************************************)
(* A model of the two astronomical plotting programs of the repository:    *)
(*                                                                         *)
(*   footprint.py  the AllSkyMap subclass of Basemap with its degree       *)
(*                 formatter angle_symbol, its constructor and the         *)
(*                 methods label_meridians and east_hem;                   *)
(*   Hammer.py     the script that reads RA/Dec pairs from demo.dat and    *)
(*                 plots them on a Hammer projection.                      *)
(*                                                                         *)
(* Angles of footprint.py are fixed-point numbers in tenths of a degree    *)
(* (446 is 44.6 degrees), with exact arithmetic.  Text is a sequence of    *)
(* one-character strings.  Python's None is the empty tuple and a present  *)
(* value v is <<v>>, where a variable may hold either.                     *)
(***************************************************************************)
EXTENDS Integers, Sequences, FiniteSets, TLC

VARIABLES
    rcParams,   \* pl.rcParams: text.usetex and text.latex.unicode
    ctorArgs,   \* the arguments of the AllSkyMap(...) call, once made
    raised,     \* the exception the AllSkyMap(...) call raised, if any
    base,       \* the keywords Basemap.__init__ was called with, if it was
    self,       \* the AllSkyMap instance, once constructed
    texts,      \* the pl.text calls made so far, in order
    ret,        \* the last method call and the value it returned
    fmtCall,    \* angle_symbol under test: its arguments and its result
    file,       \* demo.dat: whether it can be opened, and its lines
    pc,         \* Hammer.py: position of the script
    idx,        \* Hammer.py: number of lines the for loop has consumed
    ra,         \* Hammer.py: the list ra
    dec,        \* Hammer.py: the list dec
    plotted,    \* Hammer.py: the points ax.plot drew, if it was called
    saved,      \* Hammer.py: whether plt.savefig("demo.png") has run
    err         \* Hammer.py: the unhandled exception that ended the script

vars == <<rcParams, ctorArgs, raised, base, self, texts, ret, fmtCall,
          file, pc, idx, ra, dec, plotted, saved, err>>

plotVars == <<file, pc, idx, ra, dec, plotted, saved, err>>

None == <<>>
Some(v) == <<v>>

Abs(x) == IF x < 0 THEN -x ELSE x

(***************************************************************************)
(* Bounds of the model.                                                    *)
(***************************************************************************)
\* east_hem is called with longitudes up to MaxQuarterTurns * 90 degrees
\* either side of zero (and one tenth of a degree either side of each).
MaxQuarterTurns == 4
\* At most MaxTexts labels are drawn in a run.
MaxTexts == 2
\* angle_symbol is tried on every angle from -MaxAngle to MaxAngle tenths.
MaxAngle == 460
\* demo.dat has at most MaxLines lines.
MaxLines == 3

(***************************************************************************)
(* footprint.py: angle_symbol                                              *)
(***************************************************************************)
DEGREE_SIGN == "DEGREE SIGN"

\* RoundHalfEven with the fraction dropped instead of rounded.
RoundTruncate(num, den) == num \div den

\* np.round of the non-negative quotient num / den (den > 0): the nearest
\* integer, a tie going to the even one.
RoundHalfEven(num, den) ==
    LET f == num \div den
        r == num % den
    IN  IF 2 * r < den THEN f
        ELSE IF 2 * r > den THEN f + 1
        ELSE IF f % 2 = 0 THEN f ELSE f + 1

\* value = np.round(angle / round_to) * round_to, a float: its sign bit and
\* its magnitude in tenths.  The sign bit of the product is the sign of
\* angle (a quotient that rounds to zero keeps its sign as -0.0).
RoundedValue(angle, round_to) ==
    [neg |-> angle < 0,
     mag |-> RoundHalfEven(Abs(angle), Abs(round_to)) * Abs(round_to)]

Digit(d) ==
    CASE d = 0 -> "0" [] d = 1 -> "1" [] d = 2 -> "2" [] d = 3 -> "3"
      [] d = 4 -> "4" [] d = 5 -> "5" [] d = 6 -> "6" [] d = 7 -> "7"
      [] d = 8 -> "8" [] d = 9 -> "9"

RECURSIVE Digits(_)
Digits(n) ==
    IF n < 10 THEN <<Digit(n)>>
    ELSE Append(Digits(n \div 10), Digit(n % 10))

\* '%0.0f' % value: the sign, then the magnitude in whole degrees with no
\* decimals, a tie going to the even integer.
PercentF0(value) ==
    (IF value.neg THEN <<"-">> ELSE <<>>)
        \o Digits(RoundHalfEven(value.mag, 10))

UseTexBranch(rc) == rc.usetex /\ ~rc.latex_unicode

angle_symbol(angle, round_to, rc) ==
    LET value == RoundedValue(angle, round_to)
    IN  IF UseTexBranch(rc)
        THEN <<"$">> \o PercentF0(value) \o <<"^", "\\", "c", "i", "r", "c", "$">>
        ELSE PercentF0(value) \o <<DEGREE_SIGN>>

(***************************************************************************)
(* footprint.py: class AllSkyMap                                           *)
(***************************************************************************)
\* east_lon = 180., in tenths of a degree
east_lon == 1800

\* 360., the modulus of east_hem, in tenths of a degree
FullTurn == 3600

\* SupportedProjection with the long name of the second projection.
SupportedProjectionLongName(projection) ==
    ~(projection # "hammer" /\ projection # "mollweide")

SupportedProjection(projection) ==
    ~(projection # "hammer" /\ projection # "moll")

\* BasemapKeywords with the caller's boundinglat passed on.
BasemapKeywordsBounding(a) ==
    [llcrnrlon |-> None, llcrnrlat |-> None,
     urcrnrlon |-> None, urcrnrlat |-> None,
     llcrnrx |-> None, llcrnry |-> None,
     urcrnrx |-> None, urcrnry |-> None,
     width |-> None, height |-> None,
     projection |-> a.projection, resolution |-> None,
     area_thresh |-> None, rsphere |-> 1,
     lat_ts |-> None,
     lat_1 |-> None, lat_2 |-> None,
     lat_0 |-> a.lat_0, lon_0 |-> a.lon_0,
     suppress_ticks |-> a.suppress_ticks,
     satellite_height |-> 1,
     boundinglat |-> a.boundinglat,
     fix_aspect |-> TRUE,
     anchor |-> a.anchor,
     celestial |-> TRUE,
     ax |-> a.ax]

\* The keywords of the Basemap.__init__ call.
BasemapKeywords(a) ==
    [llcrnrlon |-> None, llcrnrlat |-> None,
     urcrnrlon |-> None, urcrnrlat |-> None,
     llcrnrx |-> None, llcrnry |-> None,
     urcrnrx |-> None, urcrnry |-> None,
     width |-> None, height |-> None,
     projection |-> a.projection, resolution |-> None,
     area_thresh |-> None, rsphere |-> 1,
     lat_ts |-> None,
     lat_1 |-> None, lat_2 |-> None,
     lat_0 |-> a.lat_0, lon_0 |-> a.lon_0,
     suppress_ticks |-> a.suppress_ticks,
     satellite_height |-> 1,
     boundinglat |-> None,
     fix_aspect |-> TRUE,
     anchor |-> a.anchor,
     celestial |-> TRUE,
     ax |-> a.ax]

\* What Basemap.__init__ leaves in self.projparams: the projection
\* parameters it was given.
Projparams(kw) ==
    [proj |-> kw.projection, lat_0 |-> kw.lat_0, lon_0 |-> kw.lon_0]

\* The instance after __init__ has returned.
NewAllSkyMap(kw) ==
    [projparams |-> Projparams(kw),
     celestial |-> kw.celestial,
     _lon_0 |-> Projparams(kw).lon_0,
     _limb |-> None]

\* lon_lbl as the docstring of label_meridians words it: 360-l.
lon_lblDocstring(lon) == IF lon < 0 THEN FullTurn - lon ELSE lon

\* The display value of a meridian's label.
lon_lbl(lon) == IF lon < 0 THEN FullTurn + lon ELSE lon

\* label_meridians labelling the nudged longitude instead of the given one.
label_meridiansNudged(lons, st, rc) ==
    [i \in 1..Len(lons) |->
        [xy |-> [lon |-> lons[i] + st.hnudge, lat |-> 0 + st.vnudge],
         s |-> angle_symbol(lon_lbl(lons[i] + st.hnudge), 10, rc),
         fontsize |-> st.fontsize,
         verticalalignment |-> st.valign,
         horizontalalignment |-> st.halign]]

\* The pl.text calls of one label_meridians call.  x, y = self(lon, lat) is
\* the projection of the map; the projected point is named by the
\* coordinate that was projected.
label_meridians(lons, st, rc) ==
    [i \in 1..Len(lons) |->
        [xy |-> [lon |-> lons[i] + st.hnudge, lat |-> 0 + st.vnudge],
         s |-> angle_symbol(lon_lbl(lons[i]), 10, rc),
         fontsize |-> st.fontsize,
         verticalalignment |-> st.valign,
         horizontalalignment |-> st.halign]]

\* east_hem with the boundary excluded.
east_hemStrict(obj, lon) ==
    IF (lon - obj._lon_0) % FullTurn < east_lon THEN TRUE ELSE FALSE

\* east_hem with a remainder that takes the sign of the dividend (fmod).
east_hemFmod(obj, lon) ==
    LET d == lon - obj._lon_0
        m == IF d < 0 THEN -((-d) % FullTurn) ELSE d % FullTurn
    IN  IF m <= east_lon THEN TRUE ELSE FALSE

east_hem(obj, lon) ==
    IF (lon - obj._lon_0) % FullTurn <= east_lon THEN TRUE ELSE FALSE

(***************************************************************************)
(* The wrapper: inputs and operations                                      *)
(***************************************************************************)
RcInputs == [usetex : BOOLEAN, latex_unicode : BOOLEAN]

ProjectionInputs == {"hammer", "moll", "mollweide", "merc"}

Lon0Inputs == {0, 900, -1800}

\* The remaining caller arguments: the defaults of __init__, every one of
\* them changed, and a mixture.
CallerInputs ==
    {[lat_0 |-> 0, suppress_ticks |-> TRUE, boundinglat |-> None,
      fix_aspect |-> TRUE, anchor |-> "C", ax |-> None],
     [lat_0 |-> 300, suppress_ticks |-> FALSE, boundinglat |-> Some(600),
      fix_aspect |-> FALSE, anchor |-> "NW", ax |-> Some("ax1")],
     [lat_0 |-> 0, suppress_ticks |-> FALSE, boundinglat |-> Some(600),
      fix_aspect |-> TRUE, anchor |-> "NW", ax |-> None]}

CtorInputs ==
    {[projection |-> p, lon_0 |-> l, lat_0 |-> c.lat_0,
      suppress_ticks |-> c.suppress_ticks, boundinglat |-> c.boundinglat,
      fix_aspect |-> c.fix_aspect, anchor |-> c.anchor, ax |-> c.ax] :
        p \in ProjectionInputs, l \in Lon0Inputs, c \in CallerInputs}

HemInputs ==
    {q * 900 + e : q \in -MaxQuarterTurns..MaxQuarterTurns, e \in {-1, 0, 1}}

\* The lists of longitudes label_meridians is called with (tenths of a
\* degree; -5 is half a degree west of zero).
LabelInputs ==
    {<<>>, <<-300, 300>>, <<-1800>>, <<0, -5>>, <<300, -1800, -300>>}

\* The defaults of label_meridians, and the call of the demonstration
\* (fontsize=9, vnudge=1, halign='left', hnudge=-1).
LabelStyles ==
    {[fontsize |-> 10, valign |-> "bottom", vnudge |-> 0,
      halign |-> "center", hnudge |-> 0],
     [fontsize |-> 9, valign |-> "bottom", vnudge |-> 10,
      halign |-> "left", hnudge |-> -10]}

NoFmtCall == [angle |-> 0, round_to |-> 10, out |-> None]

PlotIdle ==
    /\ file = [ok |-> TRUE, lines |-> <<>>]
    /\ pc = "off"
    /\ idx = 0
    /\ ra = <<>>
    /\ dec = <<>>
    /\ plotted = None
    /\ saved = FALSE
    /\ err = None

Init ==
    /\ rcParams \in RcInputs
    /\ ctorArgs = None
    /\ raised = None
    /\ base = None
    /\ self = None
    /\ texts = <<>>
    /\ ret = None
    /\ fmtCall = NoFmtCall
    /\ PlotIdle

\* AllSkyMap.__init__
AllSkyMap_init(a) ==
    /\ ctorArgs = None
    /\ ctorArgs' = Some(a)
    /\ IF ~SupportedProjection(a.projection)
       THEN /\ raised' = Some("ValueError")
            /\ UNCHANGED <<base, self>>
       ELSE /\ base' = Some(BasemapKeywords(a))
            /\ self' = Some(NewAllSkyMap(BasemapKeywords(a)))
            /\ UNCHANGED raised
    /\ UNCHANGED <<rcParams, texts, ret, fmtCall>>
    /\ UNCHANGED plotVars

Construct == \E a \in CtorInputs : AllSkyMap_init(a)

\* a call of AllSkyMap.label_meridians
LabelMeridians ==
    \E lons \in LabelInputs, st \in LabelStyles :
        /\ self # None
        /\ Len(texts) + Len(lons) <= MaxTexts
        /\ texts' = texts \o label_meridians(lons, st, rcParams)
        /\ ret' = Some([op |-> "label_meridians", arg |-> lons, style |-> st,
                        val |-> None])
        /\ UNCHANGED <<rcParams, ctorArgs, raised, base, self, fmtCall>>
        /\ UNCHANGED plotVars

\* a call of AllSkyMap.east_hem
EastHem ==
    \E lon \in HemInputs :
        /\ self # None
        /\ ret' = Some([op |-> "east_hem", arg |-> lon,
                        val |-> Some(east_hem(self[1], lon))])
        /\ UNCHANGED <<rcParams, ctorArgs, raised, base, self, texts, fmtCall>>
        /\ UNCHANGED plotVars

Next == Construct \/ LabelMeridians \/ EastHem

Spec == Init /\ [][Next]_vars

(***************************************************************************)
(* Reading a label back                                                    *)
(***************************************************************************)
DigitChars == {Digit(d) : d \in 0..9}

DigitValue(c) == CHOOSE d \in 0..9 : Digit(d) = c

RECURSIVE ParseNat(_)
ParseNat(s) ==
    IF s = <<>> THEN 0
    ELSE 10 * ParseNat(SubSeq(s, 1, Len(s) - 1)) + DigitValue(s[Len(s)])

ParseInt(s) ==
    IF s # <<>> /\ s[1] = "-" THEN -ParseNat(Tail(s)) ELSE ParseNat(s)

\* The sign and digits of a label, and the number they denote in degrees.
NumericPart(s) == SelectSeq(s, LAMBDA c : c \in DigitChars \cup {"-"})

LabelDegrees(s) == ParseInt(NumericPart(s))

TexSuffix == <<"^", "\\", "c", "i", "r", "c", "$">>

\* s is the Unicode form of a label: the numeric part, then the degree sign.
IsUnicodeLabel(s) ==
    /\ s # <<>>
    /\ s[Len(s)] = DEGREE_SIGN
    /\ s = NumericPart(s) \o <<DEGREE_SIGN>>

\* s is the TeX form of a label: $<numeric part>^\circ$.
IsTexLabel(s) == s = <<"$">> \o NumericPart(s) \o TexSuffix

\* deg (whole degrees) is a whole-degree rounding of v (tenths of a degree).
NearestDegree(deg, v) == 2 * Abs(10 * deg - v) <= 10

\* m is a multiple of unit nearest to v (all in tenths of a degree).
NearestMultiple(m, v, unit) == m % unit = 0 /\ 2 * Abs(v - m) <= unit

IsCall(name) == ret # None /\ ret[1].op = name

\* The pl.text calls of the last label_meridians call.
LastDrawn ==
    LET n == Len(ret[1].arg)
    IN  SubSeq(texts, Len(texts) - n + 1, Len(texts))

(***************************************************************************)
(* C1: AllSkyMap.__init__ and the projection kind                          *)
(***************************************************************************)
\* C1 as stated: construction succeeds for the projection strings hammer
\* and mollweide, and for every other string it raises ValueError before
\* Basemap.__init__ is called.
C1_AsStated ==
    ctorArgs # None =>
        LET p == ctorArgs[1].projection
        IN  IF p \in {"hammer", "mollweide"}
            THEN raised = None /\ self # None
            ELSE raised = Some("ValueError") /\ base = None /\ self = None

\* C1 amended: construction succeeds exactly for the projection strings
\* hammer and moll; for every other string, mollweide included, it raises
\* ValueError before Basemap.__init__ is called, and no instance results.
C1_Construction ==
    ctorArgs # None =>
        LET p == ctorArgs[1].projection
        IN  IF p \in {"hammer", "moll"}
            THEN raised = None /\ self # None /\ base # None
            ELSE raised = Some("ValueError") /\ base = None /\ self = None

C1_Witness ==
    /\ ctorArgs # None
    /\ ctorArgs[1].projection = "mollweide"
    /\ raised = Some("ValueError")
    /\ base = None

(***************************************************************************)
(* C10: the keywords forwarded to Basemap.__init__                         *)
(***************************************************************************)
\* C10: after a successful construction, the keywords given to
\* Basemap.__init__ have every lon/lat bounding parameter None and celestial
\* True whatever the caller's boundinglat; projection, lat_0, lon_0,
\* suppress_ticks, anchor and ax are the caller's; the stored centre
\* longitude is the base class's lon_0 and the limb handle is None.
C10_Forwarding ==
    self # None =>
        /\ base # None
        /\ ctorArgs # None
        /\ LET kw == base[1]
               a == ctorArgs[1]
               obj == self[1]
           IN  /\ kw.llcrnrlon = None
               /\ kw.llcrnrlat = None
               /\ kw.urcrnrlon = None
               /\ kw.urcrnrlat = None
               /\ kw.boundinglat = None
               /\ kw.celestial = TRUE
               /\ kw.projection = a.projection
               /\ kw.lat_0 = a.lat_0
               /\ kw.lon_0 = a.lon_0
               /\ kw.suppress_ticks = a.suppress_ticks
               /\ kw.anchor = a.anchor
               /\ kw.ax = a.ax
               /\ obj._lon_0 = obj.projparams.lon_0
               /\ obj._lon_0 = a.lon_0
               /\ obj._limb = None

C10_Witness ==
    /\ self # None
    /\ ctorArgs[1].boundinglat # None
    /\ ctorArgs[1].lon_0 # 0
    /\ base[1].boundinglat = None

(***************************************************************************)
(* C2, C3: east_hem                                                        *)
(***************************************************************************)
\* lon lies from 0 to 180 degrees east of the centre c, whole turns apart.
WithinHalfTurnEast(lon, c) ==
    \E k \in -(MaxQuarterTurns + 2)..(MaxQuarterTurns + 2) :
        /\ 0 <= (lon - c) - k * 3600
        /\ (lon - c) - k * 3600 <= 1800

\* C2: east_hem(L) is True iff (L - lon_0) mod 360 <= 180, the boundary
\* included: L = lon_0 + 180 and L = lon_0 - 180 give True, and every L
\* with 180 < (L - lon_0) mod 360 < 360 gives False.
C2_EastHem ==
    IsCall("east_hem") =>
        LET L == ret[1].arg
            c == self[1]._lon_0
            r == ret[1].val[1]
        IN  /\ r = WithinHalfTurnEast(L, c)
            /\ (L = c + 1800 \/ L = c - 1800) => r = TRUE
            /\ (\E k \in -(MaxQuarterTurns + 2)..(MaxQuarterTurns + 2) :
                    /\ 1800 < (L - c) - k * 3600
                    /\ (L - c) - k * 3600 < 3600) => r = FALSE

C2_Witness ==
    /\ IsCall("east_hem")
    /\ ret[1].arg = self[1]._lon_0 - 1800
    /\ self[1]._lon_0 # 0
    /\ ret[1].val = Some(TRUE)

\* C3: east_hem has period 360: the value returned for L is the value for
\* L + 360 and for L - 360; and east_hem of the centre longitude is True.
C3_Periodic ==
    /\ IsCall("east_hem") =>
        LET L == ret[1].arg
            r == ret[1].val[1]
        IN  /\ r = east_hem(self[1], L + 3600)
            /\ r = east_hem(self[1], L - 3600)
            /\ L = self[1]._lon_0 => r = TRUE
    /\ self # None =>
        /\ east_hem(self[1], self[1]._lon_0) = TRUE
        /\ \A L \in HemInputs :
               east_hem(self[1], L) = east_hem(self[1], L + 3600)

C3_Witness ==
    /\ IsCall("east_hem")
    /\ ret[1].val = Some(FALSE)
    /\ ret[1].arg + 3600 \in HemInputs
    /\ self[1]._lon_0 # 0

(***************************************************************************)
(* C4, C5: label_meridians                                                 *)
(***************************************************************************)
\* The value C4 gives for the label of longitude lon, in tenths of a degree.
DisplayValue(lon) == IF lon < 0 THEN 3600 + lon ELSE lon

\* The i-th pl.text call of a label_meridians(lons, ...) call with style st
\* shows the display value of lons[i] at the nudged position of lons[i].
LabelShows(t, lon, st) ==
    /\ t.xy = [lon |-> lon + st.hnudge, lat |-> st.vnudge]
    /\ NearestDegree(LabelDegrees(t.s), DisplayValue(lon))
    /\ DisplayValue(lon) % 10 = 0 => 10 * LabelDegrees(t.s) = DisplayValue(lon)
    /\ IF UseTexBranch(rcParams) THEN IsTexLabel(t.s) ELSE IsUnicodeLabel(t.s)

RoundInputs == {5, 10, 50}

MapIdle ==
    /\ ctorArgs = None
    /\ raised = None
    /\ base = None
    /\ self = None
    /\ texts = <<>>
    /\ ret = None

InitFmt ==
    /\ rcParams \in RcInputs
    /\ fmtCall \in {[angle |-> a, round_to |-> r, out |-> None] :
                        a \in -MaxAngle..MaxAngle, r \in RoundInputs}
    /\ MapIdle
    /\ PlotIdle

\* a call of angle_symbol(angle, round_to)
AngleSymbol ==
    /\ fmtCall.out = None
    /\ fmtCall' = [fmtCall EXCEPT
                     !.out = Some(angle_symbol(fmtCall.angle, fmtCall.round_to,
                                               rcParams))]
    /\ UNCHANGED <<rcParams, ctorArgs, raised, base, self, texts, ret>>
    /\ UNCHANGED plotVars

NextFmt == AngleSymbol

SpecFmt == InitFmt /\ [][NextFmt]_vars

(***************************************************************************)
(* C6: angle_symbol                                                        *)
(***************************************************************************)
\* C6 as stated: whatever the text-rendering flags, the returned string
\* ends with the degree glyph and its numeric part equals the input rounded
\* to the nearest multiple of round_to.
C6_AsStated ==
    fmtCall.out # None =>
        LET s == fmtCall.out[1]
        IN  /\ s[Len(s)] = DEGREE_SIGN
            /\ NearestMultiple(10 * LabelDegrees(s), fmtCall.angle,
                               fmtCall.round_to)

\* C6 amended: unless text.usetex is on with text.latex.unicode off, the
\* returned string is the numeric part followed by the degree glyph; with
\* text.usetex on and text.latex.unicode off it is $<numeric part>^\circ$,
\* which does not end with the glyph.  The numeric part is the input rounded
\* to the nearest multiple of round_to and then printed with no decimals: it
\* equals that multiple when round_to is a whole number of degrees, and is
\* its whole-degree rounding otherwise.  angle_symbol(44.6) is "45" and
\* angle_symbol(-10, round_to=5.0) is "-10" followed by the degree mark.
C6_AngleSymbol ==
    fmtCall.out # None =>
        LET s == fmtCall.out[1]
            a == fmtCall.angle
            r == fmtCall.round_to
            shown == LabelDegrees(s)
        IN  /\ IF rcParams.usetex /\ ~rcParams.latex_unicode
               THEN IsTexLabel(s) /\ s[Len(s)] # DEGREE_SIGN
               ELSE IsUnicodeLabel(s)
            /\ \E m \in (-MaxAngle - r)..(MaxAngle + r) :
                   NearestMultiple(m, a, r) /\ NearestDegree(shown, m)
            /\ r % 10 = 0 => NearestMultiple(10 * shown, a, r)
            /\ (a = 446 /\ r = 10) => NumericPart(s) = <<"4", "5">>
            /\ (a = -100 /\ r = 50) => NumericPart(s) = <<"-", "1", "0">>

C6_Witness ==
    /\ fmtCall.out # None
    /\ fmtCall.angle = 446
    /\ fmtCall.round_to = 10
    /\ fmtCall.out[1] = <<"4", "5", DEGREE_SIGN>>

(***************************************************************************)
(* Hammer.py                                                               *)
(***************************************************************************)
Whitespace == {" ", "\t", "\n"}

\* line.split(): the maximal runs of characters that are not whitespace.
RECURSIVE SplitFrom(_, _, _)
SplitFrom(line, i, cur) ==
    IF i > Len(line)
    THEN IF cur = <<>> THEN <<>> ELSE <<cur>>
    ELSE IF line[i] \in Whitespace
         THEN (IF cur = <<>> THEN <<>> ELSE <<cur>>)
                  \o SplitFrom(line, i + 1, <<>>)
         ELSE SplitFrom(line, i + 1, Append(cur, line[i]))

split(line) == SplitFrom(line, 1, <<>>)

\* float(token) on the tokens of the model: an optional minus sign and
\* decimal digits give the number, anything else raises ValueError.
FloatParses(token) ==
    LET body == IF token # <<>> /\ token[1] = "-" THEN Tail(token) ELSE token
    IN  /\ body # <<>>
        /\ \A i \in 1..Len(body) : body[i] \in DigitChars

float(token) == ParseInt(token)

RECURSIVE Gcd(_, _)
Gcd(a, b) == IF b = 0 THEN a ELSE Gcd(b, a % b)

\* The number n / d (d > 0) as a fraction in lowest terms.  Radians are
\* kept as exact multiples of math.pi: Fraction(n, d) is (n / d) * math.pi.
Fraction(n, d) ==
    LET g == Gcd(Abs(n), d)
    IN  [num |-> n \div g, den |-> d \div g]

\* ra_radians without the offset of 180 degrees.
ra_radiansNoOffset(degrees) == Fraction(degrees, 180)

\* (float(g[0]) - 180) / 180 * math.pi
ra_radians(degrees) == Fraction(degrees - 180, 180)

\* float(g[1]) / 180 * math.pi
dec_radians(degrees) == Fraction(degrees, 180)

\* The lines demo.dat is made of, each with what it holds.
LineSamples ==
    {[text |-> <<"1", "0", " ", "2", "0", "\n">>,
      kind |-> "ok", ra |-> 10, dec |-> 20],
     [text |-> <<"2", "0", "0", " ", "-", "3", "0", "\n">>,
      kind |-> "ok", ra |-> 200, dec |-> -30],
     [text |-> <<"1", "8", "0", "\t", "9", "0", "\n">>,
      kind |-> "ok", ra |-> 180, dec |-> 90],
     [text |-> <<" ", "0", " ", " ", "0", " ", "7", "\n">>,
      kind |-> "ok", ra |-> 0, dec |-> 0],
     [text |-> <<"3", "6", "0", " ", "-", "9", "0", "\n">>,
      kind |-> "ok", ra |-> 360, dec |-> -90],
     [text |-> <<"\n">>,
      kind |-> "blank", ra |-> 0, dec |-> 0],
     [text |-> <<"1", "2", "\n">>,
      kind |-> "short", ra |-> 12, dec |-> 0],
     [text |-> <<"1", "0", " ", "x", "\n">>,
      kind |-> "malformed", ra |-> 10, dec |-> 0]}

LineInputs == {l.text : l \in LineSamples}

FileInputs ==
    [ok : BOOLEAN,
     lines : UNION {[1..n -> LineInputs] : n \in 0..MaxLines}]

InitPlot ==
    /\ rcParams = [usetex |-> FALSE, latex_unicode |-> FALSE]
    /\ fmtCall = NoFmtCall
    /\ MapIdle
    /\ file \in FileInputs
    /\ pc = "open"
    /\ idx = 0
    /\ ra = <<>>
    /\ dec = <<>>
    /\ plotted = None
    /\ saved = FALSE
    /\ err = None

Abort(exception) ==
    /\ err' = Some(exception)
    /\ pc' = "aborted"

\* file = open(filename)
OpenFile ==
    /\ pc = "open"
    /\ IF file.ok
       THEN pc' = "loop" /\ UNCHANGED err
       ELSE Abort("IOError")
    /\ UNCHANGED <<file, idx, ra, dec, plotted, saved>>
    /\ UNCHANGED <<rcParams, ctorArgs, raised, base, self, texts, ret, fmtCall>>

\* ReadLine with a line that does not parse passed over instead of fatal.
ReadLineSkipping ==
    /\ pc = "loop"
    /\ idx < Len(file.lines)
    /\ idx' = idx + 1
    /\ LET g == split(file.lines[idx + 1])
       IN  IF Len(g) >= 2 /\ FloatParses(g[1]) /\ FloatParses(g[2])
           THEN /\ ra' = Append(ra, ra_radians(float(g[1])))
                /\ dec' = Append(dec, dec_radians(float(g[2])))
           ELSE UNCHANGED <<ra, dec>>
    /\ UNCHANGED <<file, pc, err, plotted, saved>>
    /\ UNCHANGED <<rcParams, ctorArgs, raised, base, self, texts, ret, fmtCall>>

\* One pass of the loop body: g = line.split(), ra.append(...),
\* dec.append(...).  ra is appended to before g[1] is looked at.
ReadLine ==
    /\ pc = "loop"
    /\ idx < Len(file.lines)
    /\ idx' = idx + 1
    /\ LET g == split(file.lines[idx + 1])
       IN  IF Len(g) < 1
           THEN Abort("IndexError") /\ UNCHANGED <<ra, dec>>
           ELSE IF ~FloatParses(g[1])
           THEN Abort("ValueError") /\ UNCHANGED <<ra, dec>>
           ELSE /\ ra' = Append(ra, ra_radians(float(g[1])))
                /\ IF Len(g) < 2
                   THEN Abort("IndexError") /\ UNCHANGED dec
                   ELSE IF ~FloatParses(g[2])
                   THEN Abort("ValueError") /\ UNCHANGED dec
                   ELSE /\ dec' = Append(dec, dec_radians(float(g[2])))
                        /\ UNCHANGED <<pc, err>>
    /\ UNCHANGED <<file, plotted, saved>>
    /\ UNCHANGED <<rcParams, ctorArgs, raised, base, self, texts, ret, fmtCall>>

\* for line in file: reading the next line fails
ReadFails ==
    /\ pc = "loop"
    /\ idx < Len(file.lines)
    /\ Abort("IOError")
    /\ UNCHANGED <<file, idx, ra, dec, plotted, saved>>
    /\ UNCHANGED <<rcParams, ctorArgs, raised, base, self, texts, ret, fmtCall>>

\* the loop is exhausted; file.close()
CloseFile ==
    /\ pc = "loop"
    /\ idx = Len(file.lines)
    /\ pc' = "plot"
    /\ UNCHANGED <<file, idx, ra, dec, plotted, saved, err>>
    /\ UNCHANGED <<rcParams, ctorArgs, raised, base, self, texts, ret, fmtCall>>

\* ax.plot(ra,dec,'ko')
Plot ==
    /\ pc = "plot"
    /\ Len(ra) = Len(dec)
    /\ plotted' = Some([i \in 1..Len(ra) |-> [x |-> ra[i], y |-> dec[i]]])
    /\ pc' = "decorate"
    /\ UNCHANGED <<file, idx, ra, dec, saved, err>>
    /\ UNCHANGED <<rcParams, ctorArgs, raised, base, self, texts, ret, fmtCall>>

\* ax.set_xticklabels(xx); plt.title('20120520')
Decorate ==
    /\ pc = "decorate"
    /\ pc' = "save"
    /\ UNCHANGED <<file, idx, ra, dec, plotted, saved, err>>
    /\ UNCHANGED <<rcParams, ctorArgs, raised, base, self, texts, ret, fmtCall>>

\* plt.savefig("demo.png")
SaveFig ==
    /\ pc = "save"
    /\ saved' = TRUE
    /\ pc' = "done"
    /\ UNCHANGED <<file, idx, ra, dec, plotted, err>>
    /\ UNCHANGED <<rcParams, ctorArgs, raised, base, self, texts, ret, fmtCall>>

NextPlot ==
    \/ OpenFile
    \/ ReadLine
    \/ ReadFails
    \/ CloseFile
    \/ Plot
    \/ Decorate
    \/ SaveFig

SpecPlot == InitPlot /\ [][NextPlot]_vars

(***************************************************************************)
(* C7, C8, C9: the coordinate plotter                                      *)
(***************************************************************************)
\* What the i-th line of demo.dat holds.
Sample(i) == CHOOSE l \in LineSamples : l.text = file.lines[i]

LineKinds == {Sample(i).kind : i \in 1..Len(file.lines)}

ParseError == {Some("IndexError"), Some("ValueError")}

\* The fraction f times math.pi is the angle of n degrees in radians.
IsRadiansOf(f, n) == f.den > 0 /\ f.num * 180 = n * f.den

\* C7: when every line of the file is well formed and the script ends,
\* exactly one point per line has been plotted, in file order, the i-th
\* being ((ra_i - 180) / 180 * pi, dec_i / 180 * pi): RA = 180 gives 0,
\* RA = 0 gives -pi, Dec = 90 gives pi / 2, and every RA in [0, 360] gives
\* a value in [-pi, pi].  No line of such a file fails to parse.
C7_Points ==
    LineKinds \subseteq {"ok"} =>
        /\ err \notin ParseError
        /\ plotted # None =>
            /\ Len(plotted[1]) = Len(file.lines)
            /\ \A i \in 1..Len(file.lines) :
                LET pt == plotted[1][i]
                    l == Sample(i)
                IN  /\ IsRadiansOf(pt.x, l.ra - 180)
                    /\ IsRadiansOf(pt.y, l.dec)
                    /\ l.ra = 180 => pt.x.num = 0
                    /\ l.ra = 0 => pt.x.num = -pt.x.den
                    /\ l.dec = 90 => 2 * pt.y.num = pt.y.den
                    /\ (0 <= l.ra /\ l.ra <= 360) =>
                           (-pt.x.den <= pt.x.num /\ pt.x.num <= pt.x.den)

C7_Witness ==
    /\ pc = "done"
    /\ Len(file.lines) = 2
    /\ Sample(1).ra = 180
    /\ Sample(1).dec = 90
    /\ Sample(2).ra = 0
    /\ plotted = Some(<<[x |-> [num |-> 0, den |-> 1],
                        y |-> [num |-> 1, den |-> 2]],
                       [x |-> [num |-> -1, den |-> 1],
                        y |-> [num |-> 0, den |-> 1]]>>)

\* C8: an I/O or parse error ends the run for good: once a line has failed,
\* no point is ever plotted and the image is never written; ax.plot and
\* savefig are reached only after every line has been parsed; and no line
\* is read a second time.
C8_Abort ==
    /\ [](err # None => (pc = "aborted" /\ plotted = None /\ ~saved))
    /\ [](plotted # None =>
            /\ err = None
            /\ idx = Len(file.lines)
            /\ Len(plotted[1]) = Len(file.lines))
    /\ [](saved => plotted # None)
    /\ [][err # None => UNCHANGED vars]_vars
    /\ [][idx' >= idx]_vars

C8_Witness ==
    /\ pc = "aborted"
    /\ err = Some("ValueError")
    /\ idx = 2
    /\ Len(ra) = 2
    /\ Len(dec) = 1
    /\ plotted = None
    /\ ~saved

\* C9 as stated: blank lines are ignored: a file of well-formed and blank
\* lines is processed without a parse failure, and one point is plotted per
\* non-blank line.
C9_AsStated ==
    LineKinds \subseteq {"ok", "blank"} =>
        /\ err \notin ParseError
        /\ plotted # None =>
            Len(plotted[1]) =
                Cardinality({i \in 1..Len(file.lines) : Sample(i).kind = "ok"})

====
